---- MODULE Spec2Model ----
(***************************************************************************)
(* Blackjack round state machine of src/script.js: deck management,        *)
(* scoring, player turn, timer-driven dealer turn, round resolution and    *)
(* running statistics.  Sprite generation and sound synthesis do not touch *)
(* the game state and are left out.                                        *)
(***************************************************************************)
EXTENDS Integers, Sequences, FiniteSets, TLC

VARIABLES deck, deckIndex, playerHand, dealerHand, gameOver,
          wins, losses, busts,
          btnHit, btnStand, btnNew,   \* the buttons' `disabled` flags
          shown,                      \* showDealerHidden of the last renderTable
          message,                    \* text of the overlay, "" when hidden
          loops,                      \* playerStand invocations waiting on their timer
          rounds,                     \* history: number of startNewGame calls
          last,                       \* history: the handler that ran last
          clicks,                     \* history: number of handler calls made by the user
          hand, result                \* input and output of the scoring harness

vars == <<deck, deckIndex, playerHand, dealerHand, gameOver, wins, losses,
          busts, btnHit, btnStand, btnNew, shown, message, loops, rounds,
          last, clicks, hand, result>>

----------------------------------------------------------------------------
(* Bounds *)

\* number of ranks in play (the deck of the model has one suit)
NumRanks == 4
\* calls of startNewGame, playerHit and playerStand the user makes in one run
MaxClicks == 2
\* longest hand given to the scoring harness
MaxHand == 4

----------------------------------------------------------------------------
(* Cards *)

suits == <<"clubs", "diamonds", "hearts", "spades">>
ranks == <<"2", "3", "4", "5", "6", "7", "8", "9", "10", "J", "Q", "K", "A">>

\* parseInt on a rank string; NaN (letters) is never used as a value
parseInt(r) ==
    CASE r = "2" -> 2 [] r = "3" -> 3 [] r = "4" -> 4 [] r = "5" -> 5
      [] r = "6" -> 6 [] r = "7" -> 7 [] r = "8" -> 8 [] r = "9" -> 9
      [] r = "10" -> 10 [] OTHER -> 0

cardValue(r) ==
    IF r = "A" THEN 11
    ELSE IF r \in {"J", "Q", "K"} THEN 10
    ELSE parseInt(r)

Card(r, s) == [rank |-> r, suit |-> s, value |-> cardValue(r)]

\* order in which the ranks enter the bounded deck: A K 6 5 Q 2 9 3 4 7 8 10 J
PlayOrder == <<13, 12, 5, 4, 11, 1, 8, 2, 3, 6, 7, 9, 10>>
playRanks == [i \in 1..NumRanks |-> ranks[PlayOrder[i]]]
playSuits == <<suits[1]>>

createDeck ==
    [k \in 1..(Len(playSuits) * NumRanks) |->
        Card(playRanks[((k - 1) % NumRanks) + 1],
             playSuits[((k - 1) \div NumRanks) + 1])]

\* what deck[i] evaluates to past the end of the array
Undefined == [rank |-> "undefined", suit |-> "undefined", value |-> 0]

----------------------------------------------------------------------------
(* Deck management *)

Swap(d, i, j) == [d EXCEPT ![i] = d[j], ![j] = d[i]]

\* Fisher-Yates from the last position down; j is Math.random's choice
RECURSIVE shuffleFrom(_, _)
shuffleFrom(d, i) ==
    IF i <= 1 THEN {d}
    ELSE UNION {shuffleFrom(Swap(d, i, j), i - 1) : j \in 1..i}

\* the rearrangements of positions Fisher-Yates can produce on the deck
Positions == [k \in 1..Len(createDeck) |-> k]
Shuffles == shuffleFrom(Positions, Len(Positions))

\* shuffleDeck on deck d, which holds all the cards or (before createDeck) none
shuffleDeck(d) == {[k \in DOMAIN d |-> d[s[k]]] : s \in Shuffles}

\* dealCard with the exhaustion test off by one (deckIndex > deck.length)
dealCardOffByOne(d, i) ==
    IF i > Len(d)
    THEN {[deck |-> p, deckIndex |-> 1,
           card |-> IF Len(p) >= 1 THEN p[1] ELSE Undefined] : p \in shuffleDeck(d)}
    ELSE {[deck |-> d, deckIndex |-> i + 1,
           card |-> IF i + 1 \in DOMAIN d THEN d[i + 1] ELSE Undefined]}

\* outcomes of dealCard on deck d with deckIndex i (0-based, as in the code)
dealCard(d, i) ==
    IF i >= Len(d)
    THEN {[deck |-> p, deckIndex |-> 1,
           card |-> IF Len(p) >= 1 THEN p[1] ELSE Undefined] : p \in shuffleDeck(d)}
    ELSE {[deck |-> d, deckIndex |-> i + 1,
           card |-> IF i + 1 \in DOMAIN d THEN d[i + 1] ELSE Undefined]}

----------------------------------------------------------------------------
(* Scoring *)

RECURSIVE sumValues(_)
sumValues(h) == IF h = <<>> THEN 0 ELSE h[1].value + sumValues(Tail(h))

RECURSIVE countAces(_)
countAces(h) ==
    IF h = <<>> THEN 0
    ELSE (IF h[1].rank = "A" THEN 1 ELSE 0) + countAces(Tail(h))

\* the ace loop with its test written score >= 21
RECURSIVE softenAcesAt21(_, _)
softenAcesAt21(score, aces) ==
    IF score >= 21 /\ aces > 0 THEN softenAcesAt21(score - 10, aces - 1) ELSE score

RECURSIVE softenAces(_, _)
softenAces(score, aces) ==
    IF score > 21 /\ aces > 0 THEN softenAces(score - 10, aces - 1) ELSE score

calculateScore(h) == softenAces(sumValues(h), countAces(h))

----------------------------------------------------------------------------
(* Round resolution *)

\* endGame without the line that enables the New Game button
endGameKeepsNewDisabled ==
    /\ gameOver' = TRUE
    /\ btnHit' = TRUE
    /\ btnStand' = TRUE
    /\ UNCHANGED btnNew

endGame ==
    /\ gameOver' = TRUE
    /\ btnHit' = TRUE
    /\ btnStand' = TRUE
    /\ btnNew' = FALSE

\* handleRoundEnd with the dealer winning ties (dScore >= pScore)
handleRoundEndTieLoses(pH, dH) ==
    LET pScore == calculateScore(pH)
        dScore == calculateScore(dH)
    IN  /\ shown' = TRUE
        /\ IF pScore > 21
           THEN /\ message' = "BUST! You lose."
                /\ busts' = busts + 1
                /\ UNCHANGED <<wins, losses>>
           ELSE IF dScore > 21
           THEN /\ message' = "Dealer BUSTS! You Win!"
                /\ wins' = wins + 1
                /\ UNCHANGED <<losses, busts>>
           ELSE IF pScore > dScore
           THEN /\ message' = "You Win!"
                /\ wins' = wins + 1
                /\ UNCHANGED <<losses, busts>>
           ELSE /\ message' = "Dealer Wins."
                /\ losses' = losses + 1
                /\ UNCHANGED <<wins, busts>>
        /\ endGame

\* handleRoundEnd on the hands pH, dH as they are when it is called
handleRoundEnd(pH, dH) ==
    LET pScore == calculateScore(pH)
        dScore == calculateScore(dH)
    IN  /\ shown' = TRUE
        /\ IF pScore > 21
           THEN /\ message' = "BUST! You lose."
                /\ busts' = busts + 1
                /\ UNCHANGED <<wins, losses>>
           ELSE IF dScore > 21
           THEN /\ message' = "Dealer BUSTS! You Win!"
                /\ wins' = wins + 1
                /\ UNCHANGED <<losses, busts>>
           ELSE IF pScore > dScore
           THEN /\ message' = "You Win!"
                /\ wins' = wins + 1
                /\ UNCHANGED <<losses, busts>>
           ELSE IF dScore > pScore
           THEN /\ message' = "Dealer Wins."
                /\ losses' = losses + 1
                /\ UNCHANGED <<wins, busts>>
           ELSE /\ message' = "Push (Tie)."
                /\ UNCHANGED <<wins, losses, busts>>
        /\ endGame

----------------------------------------------------------------------------
(* Handlers *)

\* the bust test written score >= 21
isBustAt21(score) == score >= 21

\* the bust test of playerHit on the score of the player's hand
isBust(score) == score > 21

\* the handlers without their first line
finishedGuardMissing(over) == FALSE

\* `if (gameOver) return;` at the head of playerHit and playerStand
finishedGuard(over) == over

\* the dealer loop without its push: the drawn card is lost
dealerPushDropped(dH, card) == dH

\* dealerHand.push(card) in the dealer loop
dealerPush(dH, card) == Append(dH, card)

\* the initial deal with both of the player's cards dealt first
initialHandsInPairs(c1, c2, c3, c4) ==
    [player |-> <<c1, c2>>, dealer |-> <<c3, c4>>]

\* the four pushes of the initial deal, on the cards in the order dealt
initialHands(c1, c2, c3, c4) ==
    [player |-> <<c1, c3>>, dealer |-> <<c2, c4>>]

\* the natural test written against the string "21", which no score equals
isNaturalNever(pScore) == FALSE

\* the test of startNewGame for a player 21 on the deal
isNatural(pScore) == pScore = 21

\* startNewGame entered with deck d and deckIndex i
startNewGame(d, i) ==
    \E s \in (IF Len(d) = 0
              THEN {[deck |-> p, deckIndex |-> 0] : p \in shuffleDeck(createDeck)}
              ELSE {[deck |-> d, deckIndex |-> i]}) :
    \E c1 \in dealCard(s.deck, s.deckIndex) :
    \E c2 \in dealCard(c1.deck, c1.deckIndex) :
    \E c3 \in dealCard(c2.deck, c2.deckIndex) :
    \E c4 \in dealCard(c3.deck, c3.deckIndex) :
        LET dealt == initialHands(c1.card, c2.card, c3.card, c4.card)
            pH == dealt.player
            dH == dealt.dealer
        IN  /\ deck' = c4.deck
            /\ deckIndex' = c4.deckIndex
            /\ playerHand' = pH
            /\ dealerHand' = dH
            /\ rounds' = rounds + 1
            /\ IF isNatural(calculateScore(pH))
               THEN /\ handleRoundEnd(pH, dH)
                    /\ last' = [op |-> "new", end |-> "roundEnd", loop |-> 0]
               ELSE /\ message' = ""
                    /\ gameOver' = FALSE
                    /\ btnHit' = FALSE
                    /\ btnStand' = FALSE
                    /\ btnNew' = TRUE
                    /\ shown' = FALSE
                    /\ UNCHANGED <<wins, losses, busts>>
                    /\ last' = [op |-> "new", end |-> "none", loop |-> 0]
            /\ UNCHANGED <<loops, hand, result>>

\* the script's top level: createDeck(); shuffleDeck(); startNewGame()
Load ==
    /\ last.op = "init"
    /\ UNCHANGED clicks
    /\ \E p \in shuffleDeck(createDeck) : startNewGame(p, 0)

\* click on the New Game button
NewGame ==
    /\ last.op # "init"
    /\ ~btnNew
    /\ clicks < MaxClicks
    /\ clicks' = clicks + 1
    /\ startNewGame(deck, deckIndex)

\* the body of playerHit
hitBody ==
    /\ IF finishedGuard(gameOver)
       THEN /\ last' = [op |-> "hit", end |-> "none", loop |-> 0]
            /\ UNCHANGED <<deck, deckIndex, playerHand, dealerHand, gameOver,
                           wins, losses, busts, btnHit, btnStand, btnNew,
                           shown, message>>
       ELSE \E c \in dealCard(deck, deckIndex) :
            LET pH == Append(playerHand, c.card)
            IN  /\ deck' = c.deck
                /\ deckIndex' = c.deckIndex
                /\ playerHand' = pH
                /\ UNCHANGED dealerHand
                /\ IF isBust(calculateScore(pH))
                   THEN /\ shown' = TRUE
                        /\ message' = "BUST! You lose."
                        /\ busts' = busts + 1
                        /\ UNCHANGED <<wins, losses>>
                        /\ endGame
                        /\ last' = [op |-> "hit", end |-> "bust", loop |-> 0]
                   ELSE /\ shown' = FALSE
                        /\ UNCHANGED <<message, wins, losses, busts, gameOver,
                                       btnHit, btnStand, btnNew>>
                        /\ last' = [op |-> "hit", end |-> "none", loop |-> 0]
    /\ UNCHANGED <<loops, rounds, hand, result>>

\* click on the Hit button
playerHit ==
    /\ last.op # "init"
    /\ ~btnHit
    /\ clicks < MaxClicks
    /\ clicks' = clicks + 1
    /\ hitBody

\* playerHit called on a finished round, past the disabled button
playerHitFinished ==
    /\ last.op # "init"
    /\ gameOver
    /\ clicks < MaxClicks
    /\ clicks' = clicks + 1
    /\ hitBody

\* playerStand up to its first await, or to its end when the dealer already
\* has 17 or more
standBody ==
    /\ IF finishedGuard(gameOver)
       THEN /\ last' = [op |-> "stand", end |-> "none", loop |-> 0]
            /\ UNCHANGED <<gameOver, wins, losses, busts, btnHit, btnStand,
                           btnNew, shown, message, loops>>
       ELSE IF calculateScore(dealerHand) < 17
       THEN /\ shown' = TRUE
            /\ loops' = Append(loops, rounds)
            /\ last' = [op |-> "stand", end |-> "none", loop |-> rounds]
            /\ UNCHANGED <<gameOver, wins, losses, busts, btnHit, btnStand,
                           btnNew, message>>
       ELSE /\ handleRoundEnd(playerHand, dealerHand)
            /\ last' = [op |-> "stand", end |-> "roundEnd", loop |-> rounds]
            /\ UNCHANGED loops
    /\ UNCHANGED <<deck, deckIndex, playerHand, dealerHand, rounds, hand, result>>

\* click on the Stand button
playerStand ==
    /\ last.op # "init"
    /\ ~btnStand
    /\ clicks < MaxClicks
    /\ clicks' = clicks + 1
    /\ standBody

\* playerStand called on a finished round, past the disabled button
playerStandFinished ==
    /\ last.op # "init"
    /\ gameOver
    /\ clicks < MaxClicks
    /\ clicks' = clicks + 1
    /\ standBody

\* the 600 ms timer of the longest-waiting playerStand fires: one pass of
\* its while loop, up to the next await or through handleRoundEnd
DealerTimer ==
    /\ loops # <<>>
    /\ \E c \in dealCard(deck, deckIndex) :
       LET dH == dealerPush(dealerHand, c.card)
       IN  /\ deck' = c.deck
           /\ deckIndex' = c.deckIndex
           /\ dealerHand' = dH
           /\ UNCHANGED playerHand
           /\ IF calculateScore(dH) < 17
              THEN /\ shown' = TRUE
                   /\ loops' = Append(Tail(loops), Head(loops))
                   /\ last' = [op |-> "timer", end |-> "none", loop |-> Head(loops)]
                   /\ UNCHANGED <<gameOver, wins, losses, busts, btnHit,
                                  btnStand, btnNew, message>>
              ELSE /\ handleRoundEnd(playerHand, dH)
                   /\ loops' = Tail(loops)
                   /\ last' = [op |-> "timer", end |-> "roundEnd", loop |-> Head(loops)]
    /\ UNCHANGED <<rounds, clicks, hand, result>>

----------------------------------------------------------------------------
(* Specification of the game *)

GameInit ==
    /\ deck = <<>>
    /\ deckIndex = 0
    /\ playerHand = <<>>
    /\ dealerHand = <<>>
    /\ gameOver = FALSE
    /\ wins = 0
    /\ losses = 0
    /\ busts = 0
    /\ btnHit = FALSE
    /\ btnStand = FALSE
    /\ btnNew = FALSE
    /\ shown = FALSE
    /\ message = ""
    /\ loops = <<>>
    /\ rounds = 0
    /\ last = [op |-> "init", end |-> "none", loop |-> 0]
    /\ clicks = 0

Init ==
    /\ GameInit
    /\ hand = <<>>
    /\ result = -1

Next ==
    \/ Load
    \/ NewGame
    \/ playerHit
    \/ playerStand
    \/ playerHitFinished
    \/ playerStandFinished
    \/ DealerTimer

Spec == Init /\ [][Next]_vars

\* every 600 ms timer eventually fires
LiveSpec == Spec /\ WF_vars(DealerTimer)

----------------------------------------------------------------------------
(* Specification of the scoring function on its own: every hand of up to   *)
(* MaxHand cards of any rank is scored once.                               *)

AllCards == {Card(ranks[i], suits[1]) : i \in 1..Len(ranks)}
Hands == UNION {[1..n -> AllCards] : n \in 0..MaxHand}

Score ==
    /\ result = -1
    /\ result' = calculateScore(hand)
    /\ UNCHANGED <<deck, deckIndex, playerHand, dealerHand, gameOver, wins,
                   losses, busts, btnHit, btnStand, btnNew, shown, message,
                   loops, rounds, last, clicks, hand>>

ScoreInit ==
    /\ GameInit
    /\ hand \in Hands
    /\ result = -1

ScoreNext == Score

ScoreSpec == ScoreInit /\ [][ScoreNext]_vars

----------------------------------------------------------------------------
(* Properties *)

Loaded == last.op # "init"

Max(S) == CHOOSE x \in S : \A y \in S : y <= x
Min(S) == CHOOSE x \in S : \A y \in S : x <= y

\* C1: the dealer loop of playerStand draws only while the dealer's score is
\* below 17, and when playerStand reaches handleRoundEnd the dealer's score
\* lies between 17 and 26.
DealerHitsUntil17 ==
    /\ [][last'.op = "timer" => calculateScore(dealerHand) < 17]_vars
    /\ []((last.op \in {"stand", "timer"} /\ last.end = "roundEnd")
            => calculateScore(dealerHand) \in 17..26)

\* the values a card of rank r may count for
Allowed(r) ==
    IF r = "A" THEN {1, 11}
    ELSE IF r \in {"J", "Q", "K"} THEN {10}
    ELSE {i + 1 : i \in {j \in 1..9 : ranks[j] = r}}

RECURSIVE Totals(_)
Totals(h) ==
    IF h = <<>> THEN {0}
    ELSE {a + t : a \in Allowed(h[1].rank), t \in Totals(Tail(h))}

BestTotal(h) ==
    LET good == {t \in Totals(h) : t <= 21}
    IN  IF good # {} THEN Max(good) ELSE Min(Totals(h))

\* C2: calculateScore returns the highest total of at most 21 obtainable by
\* counting each ace as 1 or 11, and the all-aces-as-1 total when every total
\* exceeds 21.
AceResolution == result # -1 => result = BestTotal(hand)

\* two aces, one of them counted as 11 and one as 1
AceResolutionWitness ==
    /\ result = 21
    /\ countAces(hand) = 2

\* C3: handleRoundEnd ends the round with exactly one outcome, chosen in the
\* order player bust, dealer bust, player higher, dealer higher, push, and
\* changes only that outcome's counter.
RoundResolution ==
    [][last'.end = "roundEnd" =>
        LET p == calculateScore(playerHand')
            d == calculateScore(dealerHand')
        IN  /\ gameOver'
            /\ IF p > 21
               THEN busts' = busts + 1 /\ wins' = wins /\ losses' = losses
               ELSE IF d > 21 \/ p > d
               THEN wins' = wins + 1 /\ losses' = losses /\ busts' = busts
               ELSE IF d > p
               THEN losses' = losses + 1 /\ wins' = wins /\ busts' = busts
               ELSE wins' = wins /\ losses' = losses /\ busts' = busts]_vars

\* a round resolved by the dealer loop as a push
RoundResolutionWitness ==
    /\ last.op = "timer"
    /\ last.end = "roundEnd"
    /\ gameOver
    /\ message = "Push (Tie)."
    /\ calculateScore(playerHand) = calculateScore(dealerHand)

\* C4: wins + losses + busts never exceeds the number of rounds started.
StatsAtMostRounds == wins + losses + busts <= rounds

\* C5: no card appears twice among the cards of playerHand and dealerHand.
NoDuplicateCards ==
    LET held == playerHand \o dealerHand
    IN  \A i, j \in DOMAIN held : i # j => held[i] # held[j]

\* C6: a Hit on an open round adds exactly one card to playerHand and none
\* to dealerHand; above 21 the round ends at once with busts + 1 and wins and
\* losses unchanged; at 21 or less the round stays open and no counter changes.
HitEffect ==
    [][(last'.op = "hit" /\ ~gameOver) =>
        /\ Len(playerHand') = Len(playerHand) + 1
        /\ SubSeq(playerHand', 1, Len(playerHand)) = playerHand
        /\ dealerHand' = dealerHand
        /\ IF calculateScore(playerHand') > 21
           THEN /\ gameOver'
                /\ busts' = busts + 1
                /\ wins' = wins
                /\ losses' = losses
           ELSE /\ ~gameOver'
                /\ busts' = busts
                /\ wins' = wins
                /\ losses' = losses]_vars

\* a Hit that took the player to exactly 21 and left the round open
HitEffectWitness ==
    /\ last.op = "hit"
    /\ last.end = "none"
    /\ calculateScore(playerHand) = 21
    /\ Len(playerHand) >= 3
    /\ ~gameOver

\* the total of a hand with every ace counted as 1
RECURSIVE hardTotal(_)
hardTotal(h) ==
    IF h = <<>> THEN 0
    ELSE (IF h[1].rank = "A" THEN 1 ELSE h[1].value) + hardTotal(Tail(h))

\* C7: once playerStand has run on an open round and every timer eventually
\* fires, the round reaches gameOver; each dealer draw raises the dealer's
\* all-aces-as-1 total by at least 1.
DealerTurnTerminates ==
    /\ (last.op = "stand" /\ ~gameOver) ~> gameOver
    /\ [][last'.op = "timer" =>
            hardTotal(dealerHand') >= hardTotal(dealerHand) + 1]_vars

\* a round ended by a dealer loop that drew at least two cards
DealerTurnTerminatesWitness ==
    /\ last.op = "timer"
    /\ last.end = "roundEnd"
    /\ last.loop = rounds
    /\ Len(dealerHand) >= 4
    /\ gameOver

\* the player has stood in the current round and the dealer loop is waiting
Stood == \E i \in DOMAIN loops : loops[i] = rounds

\* C8: once the player has stood, playerHand does not change for the rest of
\* the round, and a Hit click during the dealer loop changes neither the
\* deck position nor the statistics.
StandFreezesPlayer ==
    [][(Stood /\ rounds' = rounds) =>
        /\ playerHand' = playerHand
        /\ (last'.op = "hit" =>
              UNCHANGED <<deck, deckIndex, wins, losses, busts>>)]_vars

\* C9: at most one dealer loop is active, and a dealer loop acts only on the
\* round in which its Stand was clicked.
OneLoopPerRound ==
    /\ Len(loops) <= 1
    /\ (last.op = "timer" => last.loop = rounds)

\* cards dealt by handler op when it starts with gameOver = over: playerHit
\* deals none on a finished round
Dealt(op, over) ==
    IF op = "new" THEN 4
    ELSE IF op = "timer" \/ (op = "hit" /\ ~over) THEN 1
    ELSE 0

IsPermutation(d, e) ==
    /\ Len(d) = Len(e)
    /\ \A i \in DOMAIN e : \E j \in DOMAIN d : d[j] = e[i]
    /\ \A i, j \in DOMAIN d : i # j => d[i] # d[j]

\* C10: the deck always holds exactly the cards of createDeck, each once,
\* deckIndex stays within 0..deck.length, every card dealt is a card of the
\* deck, and the deck is reshuffled only by a dealCard that finds every card
\* dealt (startNewGame itself never reshuffles).
DeckIntegrity ==
    /\ [](Loaded =>
            /\ IsPermutation(deck, createDeck)
            /\ deckIndex \in 0..Len(deck)
            /\ \A i \in DOMAIN playerHand : \E j \in DOMAIN deck : deck[j] = playerHand[i]
            /\ \A i \in DOMAIN dealerHand : \E j \in DOMAIN deck : deck[j] = dealerHand[i])
    /\ [][Loaded =>
            LET n == Dealt(last'.op, gameOver)
            IN  \/ deck' = deck /\ deckIndex' = deckIndex + n
                \/ /\ deckIndex + n > Len(deck)
                   /\ deckIndex' = deckIndex + n - Len(deck)]_vars

\* a startNewGame that dealt across a reshuffle: the last cards of one
\* shuffle and the first of the next
DeckIntegrityWitness ==
    /\ last.op = "new"
    /\ rounds >= 2
    /\ deckIndex \in 1..3
    /\ deck # createDeck

\* the j-th card dealt by a step that starts with deck and deckIndex and
\* ends with deck': a card left in the old order, or one of the new order
DealtCard(j) ==
    LET left == Len(deck) - deckIndex
    IN  IF j <= left THEN deck[deckIndex + j] ELSE deck'[j - left]

\* C11: startNewGame replaces both hands by the next four cards of the deck,
\* dealt player, dealer, player, dealer, so each hand holds 2 cards; it does
\* not reset wins, losses and busts, and it leaves the round open unless the
\* player's two cards score 21.
InitialDeal ==
    [][last'.op = "new" =>
        /\ playerHand' = <<DealtCard(1), DealtCard(3)>>
        /\ dealerHand' = <<DealtCard(2), DealtCard(4)>>
        /\ wins' >= wins
        /\ losses' >= losses
        /\ busts' >= busts
        /\ gameOver' = (calculateScore(playerHand') = 21)
        /\ (~gameOver' => wins' = wins /\ losses' = losses /\ busts' = busts)]_vars

\* a second round dealt open, from the middle of the deck, over the counters
\* of the first
InitialDealWitness ==
    /\ last.op = "new"
    /\ rounds = 2
    /\ ~gameOver
    /\ wins + losses + busts >= 1
    /\ Len(playerHand) = 2
    /\ Len(dealerHand) = 2

\* C12: when the player's two initial cards score 21, startNewGame resolves
\* the round at once: the dealer keeps the 2 cards dealt and no dealer loop is
\* started; the outcome is a push when the dealer's two cards also score 21
\* and a win otherwise, never a loss or a bust.
NaturalResolved ==
    [][(last'.op = "new" /\ calculateScore(playerHand') = 21) =>
        /\ gameOver'
        /\ last'.end = "roundEnd"
        /\ Len(dealerHand') = 2
        /\ loops' = loops
        /\ losses' = losses
        /\ busts' = busts
        /\ IF calculateScore(dealerHand') = 21
           THEN wins' = wins /\ message' = "Push (Tie)."
           ELSE wins' = wins + 1 /\ message' = "You Win!"]_vars

\* a natural 21 won against a dealer left standing below 17
NaturalResolvedWitness ==
    /\ last.op = "new"
    /\ last.end = "roundEnd"
    /\ calculateScore(playerHand) = 21
    /\ Len(dealerHand) = 2
    /\ calculateScore(dealerHand) < 17
    /\ wins >= 1
    /\ gameOver

\* C13: playerHit or playerStand called while gameOver is true changes
\* neither the hands, the deck, the counters, gameOver nor the buttons, and
\* starts no dealer loop.
FinishedRoundGuard ==
    [][(gameOver /\ last'.op \in {"hit", "stand"}) =>
        UNCHANGED <<playerHand, dealerHand, deck, deckIndex, wins, losses,
                    busts, gameOver, btnHit, btnStand, btnNew, loops>>]_vars

\* playerStand has returned at once on a finished round whose dealer holds
\* less than 17
FinishedRoundGuardWitness ==
    /\ gameOver
    /\ last.op = "stand"
    /\ last.end = "none"
    /\ calculateScore(dealerHand) < 17
    /\ loops = <<>>

\* C14: between handlers the New Game button is enabled exactly when
\* gameOver is true and the Hit and Stand buttons exactly when it is false,
\* and startNewGame is run by a click only on a finished round.
ButtonsTrackRound ==
    /\ [](Loaded =>
            /\ btnNew = ~gameOver
            /\ btnHit = gameOver
            /\ btnStand = gameOver)
    /\ [][(Loaded /\ last'.op = "new") => gameOver]_vars

\* a second round, open, started from the New Game button of a finished one
ButtonsTrackRoundWitness ==
    /\ rounds = 2
    /\ last.op = "new"
    /\ ~gameOver
    /\ btnNew
    /\ ~btnHit
    /\ ~btnStand

\* C15: while the round is open and the player has not stood, the last
\* render hides the dealer's first card; once the player has stood, and
\* whenever gameOver is true, the last render shows all the dealer's cards.
HoleCardRule ==
    Loaded =>
        /\ (~gameOver /\ ~Stood) => ~shown
        /\ (gameOver \/ Stood) => shown

====
